---- MODULE Spec2Model ----
(***************************************************************************)
(* A model of the OpenRouter API proxy: the key pool (src/key_manager.py), *)
(* and the request pipeline that selects keys, sends upstream, detects     *)
(* rate limits, disables keys and retries (src/routes.py).                 *)
(*                                                                         *)
(* Time is counted in milliseconds.  A key is identified by an integer;    *)
(* the keys of the configuration are pairwise distinct.                    *)
(***************************************************************************)
EXTENDS Integers, Sequences, FiniteSets, TLC

(* ------------------------------ bounds --------------------------------- *)
\* number of lines read from one event stream
MaxLines == 3
\* number of configured upstream keys
NumKeys == 3
\* the sends of one request are counted up to this number
MaxSends == 3
\* the clock advances at most this many seconds
MaxTicks == 1
\* the configured cooldown is 0..MaxCooldown seconds
MaxCooldown == 1
MaxModels == 3

(* ------------------------- program constants --------------------------- *)
\* reset_time_ms / 1000; timedelta(seconds=...) on a millisecond clock
MsPerSecond == 1000
\* HTTPException(status_code=503) of get_next_key
StatusAllDisabled == 503
\* line 88 read selected_key unbound: an UnboundLocalError, answered 500
StatusUnbound == 500

\* a call that returned normally
StatusOk == 200

\* RATE_LIMIT_ERROR_CODE
RateLimitErrorCode == 429
\* code = 500, the default of handle_completions and the catch-all of the proxy
StatusInternal == 500
\* HTTPException(504, ...) on httpx.TimeoutException
StatusTimeout == 504
StatusUnauthorized == 401

\* self.last_key = None
NoKey == 0
\* asyncio.Lock(): not held
NoProc == 0
\* reset_time_ms: None, a value datetime.fromtimestamp raises on, or an integer
NoReset == [kind |-> "absent", ms |-> 0]
BadReset == [kind |-> "unparsable", ms |-> 0]
ResetAt(ms) == [kind |-> "ms", ms |-> ms]
Strategies == {"round-robin", "first", "random"}

(* ------------------------------- state --------------------------------- *)
VARIABLES
    keys,             \* KeyManager.keys: the configured sequence of keys
    cooldown_seconds, \* KeyManager.cooldown_seconds
    strategy,         \* KeyManager.strategy
    use_last_key,     \* KeyManager.use_last_key ("same" in opts)
    current_index,    \* KeyManager.current_index, 0-based
    disabled_until,   \* KeyManager.disabled_until: key -> deadline (ms)
    last_key,         \* KeyManager.last_key
    now,              \* datetime.now(), in ms
    call,             \* the most recent KeyManager call: its key and its result
    log,              \* the log records the most recent KeyManager call wrote
    history,          \* the keys get_next_key returned, while no key was ever disabled
    pristine,         \* no disable_key call has been made yet
    lock,             \* KeyManager.lock: the coroutine holding it, or NoProc
    proc,             \* the coroutines inside a KeyManager call: position and locals
    req,              \* the inbound requests: position in the handler and locals
    strm,             \* one event stream being forwarded: position and locals
    det,              \* one run of a rate-limit detector: its input and its result
    hdr,              \* one outbound request being built: inbound and outbound headers
    mdl               \* one models listing being filtered: the body and the result

poolVars == <<current_index, disabled_until, last_key>>
confVars == <<keys, cooldown_seconds, strategy, use_last_key>>
obsVars == <<call, log>>
histVars == <<history, pristine>>
lockVars == <<lock, proc>>
reqVars == <<req>>
streamVars == <<strm>>
detVars == <<det>>
hdrVars == <<hdr>>
mdlVars == <<mdl>>
vars == <<keys, cooldown_seconds, strategy, use_last_key, current_index,
          disabled_until, last_key, now, call, log, history, pristine, lock, proc,
          req, strm, det, hdr, mdl>>

KeySet == 1..NumKeys

Range(s) == {s[i] : i \in 1..Len(s)}

Min(S) == CHOOSE x \in S : \A y \in S : x <= y

(* ------------------------ KeyManager.get_next_key ---------------------- *)
\* lines 50-51: the key has an entry whose deadline has been reached
Expired(du, t, k) == k \in DOMAIN du /\ t >= du[k]

\* lines 48-58: a key is appended to available_keys
IsAvailable(du, t, k) == k \notin DOMAIN du \/ Expired(du, t, k)

\* lines 45-58: available_keys, in the order of self.keys
AvailableKeys(ks, du, t) == SelectSeq(ks, LAMBDA k : IsAvailable(du, t, k))

\* a faulty variant: the expired entries are kept
ScanDisabledKeep(du, t) == du

\* line 53: del self.disabled_until[key] for every expired entry
ScanDisabled(du, t) ==
    [k \in {x \in DOMAIN du : ~Expired(du, t, x)} |-> du[k]]

\* line 54: one "is now enabled again" record per expired entry
EnabledEvents(ks, du, t) ==
    {[ev |-> "enabled", key |-> k, ms |-> 0] : k \in {x \in Range(ks) : Expired(du, t, x)}}

\* a faulty variant: the cursor is left on the returned key
RECURSIVE RoundRobinWalkStuck(_, _, _, _)
RoundRobinWalkStuck(ks, idx, avail, n) ==
    IF n = 0 THEN [key |-> NoKey, index |-> idx]
    ELSE LET key == ks[idx + 1]
             nidx == (idx + 1) % Len(ks)
         IN  IF key \in avail THEN [key |-> key, index |-> idx]
             ELSE RoundRobinWalkStuck(ks, nidx, avail, n - 1)

\* a faulty variant: the cursor is advanced without wrapping round
RECURSIVE RoundRobinWalkNoWrap(_, _, _, _)
RoundRobinWalkNoWrap(ks, idx, avail, n) ==
    IF n = 0 THEN [key |-> NoKey, index |-> idx]
    ELSE LET key == ks[(idx % Len(ks)) + 1]
             nidx == idx + 1
         IN  IF key \in avail THEN [key |-> key, index |-> nidx]
             ELSE RoundRobinWalkNoWrap(ks, nidx, avail, n - 1)

\* lines 76-81: walk from the cursor, one step per key examined
RECURSIVE RoundRobinWalk(_, _, _, _)
RoundRobinWalk(ks, idx, avail, n) ==
    IF n = 0 THEN [key |-> NoKey, index |-> idx]
    ELSE LET key == ks[idx + 1]
             nidx == (idx + 1) % Len(ks)
         IN  IF key \in avail THEN [key |-> key, index |-> nidx]
             ELSE RoundRobinWalk(ks, nidx, avail, n - 1)

\* a faulty variant: "first" takes the first configured key, available or not
SelectionsFirstConfigured(ks, idx, last, strat, sticky, availSeq) ==
    LET avail == Range(availSeq) IN
    IF sticky /\ last \in avail
        THEN {[key |-> last, index |-> idx]}
    ELSE IF strat = "round-robin"
        THEN {RoundRobinWalk(ks, idx, avail, Len(ks))}
    ELSE IF strat = "first"
        THEN {[key |-> ks[1], index |-> idx]}
    ELSE {[key |-> k, index |-> idx] : k \in avail}

\* a faulty variant: the sticky option is ignored
SelectionsNoSticky(ks, idx, last, strat, sticky, availSeq) ==
    LET avail == Range(availSeq) IN
    IF strat = "round-robin"
        THEN {RoundRobinWalk(ks, idx, avail, Len(ks))}
    ELSE IF strat = "first"
        THEN {[key |-> availSeq[1], index |-> idx]}
    ELSE {[key |-> k, index |-> idx] : k \in avail}

\* lines 72-87: the selections the call can make, with the cursor each leaves
Selections(ks, idx, last, strat, sticky, availSeq) ==
    LET avail == Range(availSeq) IN
    IF sticky /\ last \in avail
        THEN {[key |-> last, index |-> idx]}
    ELSE IF strat = "round-robin"
        THEN {RoundRobinWalk(ks, idx, avail, Len(ks))}
    ELSE IF strat = "first"
        THEN {[key |-> availSeq[1], index |-> idx]}
    ELSE {[key |-> k, index |-> idx] : k \in avail}

\* a faulty variant: the latest deadline instead of the soonest
WaitTimeLatest(du, t) ==
    (CHOOSE x \in {du[k] : k \in DOMAIN du} : \A k \in DOMAIN du : du[k] <= x) - t

\* lines 62-63: (soonest_available - now_), on the map the scan left
WaitTime(du, t) == Min({du[k] : k \in DOMAIN du}) - t

\* lines 43-89 as one step under self.lock: the pool it leaves, what it returns
\* or raises, and what it logs
GetNextKeyOutcomes(ks, idx, du, last, t, strat, sticky) ==
    LET availSeq == AvailableKeys(ks, du, t)
        du2 == ScanDisabled(du, t)
        evs == EnabledEvents(ks, du, t)
    IN  IF availSeq = <<>>
        THEN {[index |-> idx, disabled |-> du2, last |-> last,
               call |-> [op |-> "next", status |-> StatusAllDisabled, key |-> NoKey],
               log |-> evs \cup {[ev |-> "all_disabled", key |-> NoKey,
                                  ms |-> WaitTime(du2, t)]}]}
        ELSE {[index |-> s.index, disabled |-> du2, last |-> s.key,
               call |-> [op |-> "next", status |-> StatusOk, key |-> s.key],
               log |-> evs]
              : s \in Selections(ks, idx, last, strat, sticky, availSeq)}

(* ------------------------ KeyManager.disable_key ----------------------- *)
\* lines 114, 119, 124: now_ + timedelta(seconds=self.cooldown_seconds)
CooldownDeadline(t, cd) == t + cd * MsPerSecond

\* a faulty variant: a reset time equal to now is accepted
DisableDeadlineNotPast(reset, t, cd) ==
    IF reset.kind = "absent" \/ (reset.kind = "ms" /\ reset.ms = 0)
        THEN CooldownDeadline(t, cd)
    ELSE IF reset.kind = "unparsable"
        THEN CooldownDeadline(t, cd)
    ELSE IF reset.ms >= t
        THEN reset.ms
    ELSE CooldownDeadline(t, cd)

\* lines 103-126: the deadline the call computes
DisableDeadline(reset, t, cd) ==
    IF reset.kind = "absent" \/ (reset.kind = "ms" /\ reset.ms = 0)
        THEN CooldownDeadline(t, cd)              \* line 103: falsy reset_time_ms
    ELSE IF reset.kind = "unparsable"
        THEN CooldownDeadline(t, cd)              \* lines 117-119: except
    ELSE IF reset.ms > t
        THEN reset.ms                             \* lines 109-110
    ELSE CooldownDeadline(t, cd)                  \* lines 112-114

\* a faulty variant: an existing later deadline is kept
SetDeadlineKeepLater(du, k, d) ==
    [x \in DOMAIN du \cup {k} |->
        IF x # k THEN du[x]
        ELSE IF k \in DOMAIN du /\ du[k] > d THEN du[k] ELSE d]

\* line 128: self.disabled_until[key] = disabled_until
SetDeadline(du, k, d) ==
    [x \in DOMAIN du \cup {k} |-> IF x = k THEN d ELSE du[x]]

\* lines 91-130 as one step under self.lock
DisableKeyOutcome(du, k, reset, t, cd) ==
    LET d == DisableDeadline(reset, t, cd)
    IN  [disabled |-> SetDeadline(du, k, d),
         call |-> [op |-> "disable", status |-> StatusOk, key |-> k],
         log |-> {[ev |-> "disabled", key |-> k, ms |-> d]}]

(* ----------------------- steps of the key pool ------------------------- *)
\* the reset times a caller passes: none, unusable, zero, past, now, two future
ResetInputs(t) ==
    {NoReset, BadReset, ResetAt(0), ResetAt(t - MsPerSecond), ResetAt(t),
     ResetAt(t + MsPerSecond), ResetAt(t + 2 * MsPerSecond)}

InitConf ==
    /\ keys = [i \in 1..NumKeys |-> i]
    /\ cooldown_seconds \in 0..MaxCooldown
    /\ strategy \in Strategies
    /\ use_last_key \in BOOLEAN

\* KeyManager.__init__, lines 30-37
InitKeyManager ==
    /\ current_index = 0
    /\ disabled_until = << >>
    /\ last_key = NoKey
    /\ now = 0
    /\ call = [op |-> "none", status |-> StatusOk, key |-> NoKey]
    /\ log = {}

InitHistory ==
    /\ history = << >>
    /\ pristine = TRUE

\* the pool that n earlier requests leave behind when each was given the next
\* key of the sequence at time 0 and had it disabled for one second by a rate
\* limit: get_next_key lines 72-88 and disable_key line 128, n times over
PoolAfterRateLimits(ks, strat, n) ==
    [index |-> IF strat = "round-robin" THEN n % Len(ks) ELSE 0,
     disabled |-> [k \in {ks[i] : i \in 1..n} |-> MsPerSecond],
     last |-> IF n = 0 THEN NoKey ELSE ks[n]]

\* a KeyManager that has served the earlier requests
InitUsedKeyManager(ns) ==
    /\ now = 0
    /\ call = [op |-> "none", status |-> StatusOk, key |-> NoKey]
    /\ log = {}
    /\ \E n \in ns :
          /\ current_index = PoolAfterRateLimits(keys, strategy, n).index
          /\ disabled_until = PoolAfterRateLimits(keys, strategy, n).disabled
          /\ last_key = PoolAfterRateLimits(keys, strategy, n).last

\* the coroutines that call the KeyManager one statement at a time
Procs == 1..NumKeys

\* the coroutines that handle a rate-limited response and call disable_key
Disablers == {1, 2}

\* a coroutine outside any call
IdleProc ==
    [pc |-> "idle", op |-> "none", arg_key |-> NoKey, arg_reset |-> NoReset,
     now_ |-> 0, available_keys |-> << >>, key |-> NoKey, left |-> 0,
     selected_key |-> NoKey, disabled_until |-> 0,
     s_index |-> 0, s_disabled |-> << >>, s_last |-> NoKey]

\* a coroutine whose call has ended
DoneProc == [IdleProc EXCEPT !.pc = "done"]

\* the inbound request that is followed through the handlers; the requests
\* served before it show in the pool it finds
Reqs == {1}

\* a request that has not arrived yet; the fields are the locals of its
\* handler: first_key is the api_key of the outermost handle_completions frame
NewRequest ==
    [pc |-> "new", endpoint |-> "none", is_stream |-> FALSE, api_key |-> NoKey,
     first_key |-> NoKey, err |-> [kind |-> "none", code |-> 0, reset |-> NoReset],
     sends |-> 0, disables |-> 0, status |-> 0, body |-> "none"]

InitRequests == req = [r \in Reqs |-> NewRequest]

\* no stream is open: the locals of stream_completion and stream_response
IdleStream ==
    [pc |-> "idle", endpoint |-> "none", api_key |-> NoKey, received |-> << >>,
     data |-> [prefixed |-> FALSE, kind |-> "", reset |-> NoReset,
               long |-> FALSE, form |-> "as_sent"],
     out |-> << >>, checked |-> << >>, failed |-> FALSE]

InitStream == strm = IdleStream

\* no detector is running
IdleDetect == [op |-> "idle"]

InitDetect == det = IdleDetect

\* no outbound request is being built
IdleHeaders == [op |-> "idle"]

InitHeaders == hdr = IdleHeaders

\* no models listing is being filtered
IdleModels == [op |-> "idle"]

InitModels == mdl = IdleModels

\* line 37: self.lock = asyncio.Lock()
InitLock ==
    /\ lock = NoProc
    /\ proc = [p \in Procs |-> IdleProc]

\* the wall clock advances
Tick ==
    /\ now < MaxTicks * MsPerSecond
    /\ now' = now + MsPerSecond
    /\ UNCHANGED <<confVars, detVars, hdrVars, mdlVars, streamVars, reqVars, poolVars, obsVars, histVars, lockVars>>

\* await key_manager.get_next_key(): the pool, the result and the log
GetNextKeyStep ==
    \E o \in GetNextKeyOutcomes(keys, current_index, disabled_until, last_key,
                                 now, strategy, use_last_key) :
        /\ current_index' = o.index
        /\ disabled_until' = o.disabled
        /\ last_key' = o.last
        /\ call' = o.call
        /\ log' = o.log

\* await key_manager.disable_key(k, reset): the pool, the result and the log
DisableKeyStep(k, reset) ==
    LET o == DisableKeyOutcome(disabled_until, k, reset, now, cooldown_seconds)
    IN  /\ disabled_until' = o.disabled
        /\ call' = o.call
        /\ log' = o.log
        /\ UNCHANGED <<current_index, last_key>>

(* --------------------------- the pool alone ---------------------------- *)
InitPool == InitConf /\ InitKeyManager /\ InitHistory /\ InitLock /\ InitRequests /\ InitStream /\ InitDetect /\ InitHeaders /\ InitModels

NextCall ==
    /\ GetNextKeyStep
    /\ UNCHANGED <<confVars, detVars, hdrVars, mdlVars, streamVars, reqVars, now, histVars, lockVars>>

DisableWith(k, reset) ==
    /\ DisableKeyStep(k, reset)
    /\ UNCHANGED <<confVars, detVars, hdrVars, mdlVars, streamVars, reqVars, now, histVars, lockVars>>

\* the reset times that decide which keys are available: none, two future ones
FutureResets(t) ==
    {NoReset, ResetAt(t + MsPerSecond), ResetAt(t + 2 * MsPerSecond)}

DisableCall ==
    \E k \in Range(keys), reset \in FutureResets(now) : DisableWith(k, reset)

PoolNext == Tick \/ NextCall \/ DisableCall

PoolSpec == InitPool /\ [][PoolNext]_vars

(* ---------------- the pool with every kind of reset time --------------- *)
DisableAnyCall ==
    \E k \in Range(keys), reset \in ResetInputs(now) : DisableWith(k, reset)

InitDisable ==
    /\ InitConf /\ InitKeyManager /\ InitHistory /\ InitLock /\ InitRequests /\ InitStream /\ InitDetect /\ InitHeaders /\ InitModels
    /\ strategy = "first"
    /\ ~use_last_key

DisableNext == Tick \/ NextCall \/ DisableAnyCall

DisableSpec == InitDisable /\ [][DisableNext]_vars

(* ------------- repeated disable_key calls on the same key --------------- *)
\* disable_key(k, reset); history keeps, for the last such call, the deadline
\* the call computed and whether the key had a later one before the call
OverwriteCall(k, reset) ==
    /\ DisableKeyStep(k, reset)
    /\ history' = <<[key |-> k,
                     computed |-> DisableDeadline(reset, now, cooldown_seconds),
                     earlier |-> /\ k \in DOMAIN disabled_until
                                 /\ DisableDeadline(reset, now, cooldown_seconds)
                                        < disabled_until[k]]>>
    /\ UNCHANGED <<confVars, detVars, hdrVars, mdlVars, streamVars, reqVars, now, pristine, lockVars>>

OverwriteAnyCall ==
    \E k \in Range(keys), reset \in ResetInputs(now) : OverwriteCall(k, reset)

OverwriteNext == Tick \/ OverwriteAnyCall

OverwriteSpec == InitDisable /\ [][OverwriteNext]_vars

(* ---------------- the pool with the history of its calls --------------- *)
\* a returned key is appended while no key was ever disabled, up to two rounds
RecordedNextCall ==
    /\ GetNextKeyStep
    /\ history' = IF pristine /\ Len(history) < 2 * Len(keys)
                      THEN Append(history, call'.key) ELSE history
    /\ UNCHANGED <<confVars, detVars, hdrVars, mdlVars, streamVars, reqVars, now, pristine, lockVars>>

RecordedDisableCall ==
    /\ \E k \in Range(keys), reset \in FutureResets(now) : DisableKeyStep(k, reset)
    /\ history' = << >>
    /\ pristine' = FALSE
    /\ UNCHANGED <<confVars, detVars, hdrVars, mdlVars, streamVars, reqVars, now, lockVars>>

InitRoundRobin ==
    /\ InitConf /\ InitKeyManager /\ InitHistory /\ InitLock /\ InitRequests /\ InitStream /\ InitDetect /\ InitHeaders /\ InitModels
    /\ strategy = "round-robin"

RoundRobinNext == Tick \/ RecordedNextCall \/ RecordedDisableCall

RoundRobinSpec == InitRoundRobin /\ [][RoundRobinNext]_vars

(* ------------- round-robin selections around one watched key ----------- *)
\* the keys available in the pool du at time t
AvailableAt(du, t) == {k \in Range(keys) : k \notin DOMAIN du \/ du[k] <= t}

\* history follows one key: whether it has been returned, how often each key
\* was returned since (up to two), which keys were available all the time
\* since, and whether the watched key has come round again while some keys
\* stayed available and another did not
WatchStart(k) ==
    [watched |-> k, seen |-> FALSE, count |-> [j \in Range(keys) |-> 0],
     steady |-> [j \in Range(keys) |-> FALSE], closed |-> FALSE]

Watched(h, key, avail) ==
    IF key = h.watched
        THEN [h EXCEPT !.seen = TRUE,
                       !.count = [j \in Range(keys) |-> 0],
                       !.steady = [j \in Range(keys) |-> j \in avail],
                       !.closed = \/ h.closed
                                  \/ /\ h.seen /\ h.steady[h.watched]
                                     /\ \E j \in Range(keys) \ {h.watched} : h.steady[j]
                                     /\ \E j \in Range(keys) : ~h.steady[j]]
    ELSE [h EXCEPT !.count = [j \in Range(keys) |->
                                 IF j = key /\ h.count[j] < 2 THEN h.count[j] + 1
                                                              ELSE h.count[j]],
                   !.steady = [j \in Range(keys) |-> h.steady[j] /\ j \in avail]]

WatchedNextCall ==
    /\ GetNextKeyStep
    /\ history' = Watched(history, call'.key, AvailableAt(disabled_until', now))
    /\ UNCHANGED <<confVars, detVars, hdrVars, mdlVars, streamVars, reqVars, now, pristine, lockVars>>

WatchedDisableCall ==
    /\ \E k \in Range(keys) : DisableKeyStep(k, NoReset)
    /\ history' = Watched(history, NoKey, AvailableAt(disabled_until', now))
    /\ UNCHANGED <<confVars, detVars, hdrVars, mdlVars, streamVars, reqVars, now, pristine, lockVars>>

WatchedTick ==
    /\ now < MaxTicks * MsPerSecond
    /\ now' = now + MsPerSecond
    /\ history' = Watched(history, NoKey, AvailableAt(disabled_until, now'))
    /\ UNCHANGED <<confVars, detVars, hdrVars, mdlVars, streamVars, reqVars, poolVars, obsVars, pristine, lockVars>>

InitCursor ==
    /\ InitConf /\ InitKeyManager /\ InitLock /\ InitRequests /\ InitStream
    /\ InitDetect /\ InitHeaders /\ InitModels
    /\ strategy = "round-robin" /\ cooldown_seconds = MaxCooldown
    /\ pristine = TRUE
    /\ \E k \in Range(keys) : history = WatchStart(k)

CursorNext == WatchedTick \/ WatchedNextCall \/ WatchedDisableCall

CursorSpec == InitCursor /\ [][CursorNext]_vars

(* ------------- the pool one statement at a time, under the lock -------- *)
\* a faulty variant: the lock is taken without waiting for it
LockFreeIgnored == TRUE

\* line 46, line 101: async with self.lock waits until the lock is not held
LockFree == lock = NoProc

\* lines 43-46: a coroutine calls get_next_key and acquires the lock
EnterNext(p) ==
    /\ proc[p].pc = "idle"
    /\ LockFree
    /\ lock' = p
    /\ proc' = [proc EXCEPT ![p].pc = "scan", ![p].op = "next",
                            ![p].s_index = current_index,
                            ![p].s_disabled = disabled_until,
                            ![p].s_last = last_key]
    /\ UNCHANGED <<confVars, detVars, hdrVars, mdlVars, streamVars, reqVars, poolVars, now, obsVars, histVars>>

\* lines 91-101: a coroutine calls disable_key(k, reset) and acquires the lock
EnterDisable(p) ==
    /\ p \in Disablers
    /\ proc[p].pc = "idle"
    /\ LockFree
    /\ lock' = p
    /\ \E k \in Range(keys), reset \in {NoReset, ResetAt(now + MsPerSecond)} :
           proc' = [proc EXCEPT ![p].pc = "compute", ![p].op = "disable",
                                ![p].arg_key = k, ![p].arg_reset = reset,
                                ![p].s_index = current_index,
                                ![p].s_disabled = disabled_until,
                                ![p].s_last = last_key]
    /\ pristine' = FALSE
    /\ history' = << >>
    /\ UNCHANGED <<confVars, detVars, hdrVars, mdlVars, streamVars, reqVars, poolVars, now, obsVars>>

\* lines 47-58: now_ is read, expired entries are deleted, available_keys built
Scan(p) ==
    /\ proc[p].pc = "scan"
    /\ disabled_until' = ScanDisabled(disabled_until, now)
    /\ log' = EnabledEvents(keys, disabled_until, now)
    /\ proc' = [proc EXCEPT ![p].pc = "select",
                            ![p].now_ = now,
                            ![p].available_keys = AvailableKeys(keys, disabled_until, now)]
    /\ UNCHANGED <<confVars, detVars, hdrVars, mdlVars, streamVars, reqVars, current_index, last_key, now, call, histVars, lock>>

\* lines 61-70: no key is available, the 503 is raised and the lock released
RaiseAllDisabled(p) ==
    /\ proc[p].pc = "select"
    /\ proc[p].available_keys = << >>
    /\ log' = log \cup {[ev |-> "all_disabled", key |-> NoKey,
                          ms |-> WaitTime(disabled_until, proc[p].now_)]}
    /\ call' = [op |-> "next", status |-> StatusAllDisabled, key |-> NoKey]
    /\ lock' = NoProc
    /\ proc' = [proc EXCEPT ![p] = DoneProc]
    /\ UNCHANGED <<confVars, detVars, hdrVars, mdlVars, streamVars, reqVars, poolVars, now, histVars>>

\* lines 72-75, 82-85: the branch on sticky and on the strategy
Select(p) ==
    /\ proc[p].pc = "select"
    /\ proc[p].available_keys # << >>
    /\ LET avail == Range(proc[p].available_keys) IN
        IF use_last_key /\ last_key \in avail
            THEN proc' = [proc EXCEPT ![p].pc = "return", ![p].selected_key = last_key]
        ELSE IF strategy = "round-robin"
            THEN proc' = [proc EXCEPT ![p].pc = "rr_read", ![p].left = Len(keys)]
        ELSE IF strategy = "first"
            THEN proc' = [proc EXCEPT ![p].pc = "return",
                                      ![p].selected_key = proc[p].available_keys[1]]
        ELSE \E k \in avail :
                proc' = [proc EXCEPT ![p].pc = "return", ![p].selected_key = k]
    /\ UNCHANGED <<confVars, detVars, hdrVars, mdlVars, streamVars, reqVars, poolVars, now, obsVars, histVars, lock>>

\* line 77: key = self.keys[self.current_index]
RoundRobinRead(p) ==
    /\ proc[p].pc = "rr_read"
    /\ proc' = [proc EXCEPT ![p].pc = "rr_advance", ![p].key = keys[current_index + 1]]
    /\ UNCHANGED <<confVars, detVars, hdrVars, mdlVars, streamVars, reqVars, poolVars, now, obsVars, histVars, lock>>

\* lines 78-81: the cursor advances; the key is selected if it is available; a
\* loop that ends without a selection leaves selected_key unbound (line 88 raises)
RoundRobinAdvance(p) ==
    /\ proc[p].pc = "rr_advance"
    /\ current_index' = (current_index + 1) % Len(keys)
    /\ IF proc[p].key \in Range(proc[p].available_keys)
           THEN /\ proc' = [proc EXCEPT ![p].pc = "return",
                                        ![p].selected_key = proc[p].key]
                /\ lock' = lock
           ELSE IF proc[p].left > 1
           THEN /\ proc' = [proc EXCEPT ![p].pc = "rr_read", ![p].left = proc[p].left - 1]
                /\ lock' = lock
           ELSE /\ proc' = [proc EXCEPT ![p] = DoneProc]
                /\ lock' = NoProc
    /\ call' = IF proc'[p].pc = "done"
                  THEN [op |-> "next", status |-> StatusUnbound, key |-> NoKey]
                  ELSE call
    /\ UNCHANGED <<confVars, detVars, hdrVars, mdlVars, streamVars, reqVars, disabled_until, last_key, now, log, histVars>>

\* lines 88-89: last_key is recorded, the key returned and the lock released
Return(p) ==
    /\ proc[p].pc = "return"
    /\ last_key' = proc[p].selected_key
    /\ call' = [op |-> "next", status |-> StatusOk, key |-> proc[p].selected_key]
    /\ lock' = NoProc
    /\ proc' = [proc EXCEPT ![p] = DoneProc]
    /\ history' = IF pristine THEN Append(history, proc[p].selected_key) ELSE history
    /\ UNCHANGED <<confVars, detVars, hdrVars, mdlVars, streamVars, reqVars, current_index, disabled_until, now, log, pristine>>

\* lines 102-126: now_ is read and the deadline computed
Compute(p) ==
    /\ proc[p].pc = "compute"
    /\ proc' = [proc EXCEPT ![p].pc = "write",
                            ![p].now_ = now,
                            ![p].disabled_until =
                                DisableDeadline(proc[p].arg_reset, now, cooldown_seconds)]
    /\ UNCHANGED <<confVars, detVars, hdrVars, mdlVars, streamVars, reqVars, poolVars, now, obsVars, histVars, lock>>

\* lines 128-130: the deadline is stored and the lock released
Write(p) ==
    /\ proc[p].pc = "write"
    /\ disabled_until' = SetDeadline(disabled_until, proc[p].arg_key, proc[p].disabled_until)
    /\ call' = [op |-> "disable", status |-> StatusOk, key |-> proc[p].arg_key]
    /\ log' = {[ev |-> "disabled", key |-> proc[p].arg_key, ms |-> proc[p].disabled_until]}
    /\ lock' = NoProc
    /\ proc' = [proc EXCEPT ![p] = DoneProc]
    /\ UNCHANGED <<confVars, detVars, hdrVars, mdlVars, streamVars, reqVars, current_index, last_key, now, histVars>>

\* the pool as constructed, or as earlier requests left it: every key disabled
\* at time 0 with a reset time of one second
InitLockSpec ==
    /\ InitConf /\ InitLock /\ InitRequests /\ InitStream /\ InitDetect /\ InitHeaders /\ InitModels
    /\ InitUsedKeyManager({0, Len(keys)})
    /\ history = << >>
    /\ pristine = (disabled_until = << >>)

LockNext ==
    \/ Tick
    \/ \E p \in Procs :
          \/ EnterNext(p) \/ EnterDisable(p) \/ Scan(p)
          \/ RaiseAllDisabled(p) \/ Select(p) \/ RoundRobinRead(p)
          \/ RoundRobinAdvance(p) \/ Return(p) \/ Compute(p) \/ Write(p)

LockSpec == InitLockSpec /\ [][LockNext]_vars

(* --------------------------- the request pipeline ---------------------- *)
\* what an upstream call raises: an APIError that signals a rate limit (with
\* the reset time it carries, if any) or another APIError
NoError == [kind |-> "none", code |-> 0, reset |-> NoReset]
RateLimitError(reset) == [kind |-> "rate_limit", code |-> RateLimitErrorCode, reset |-> reset]
OtherApiError(c) == [kind |-> "api_error", code |-> c, reset |-> NoReset]

\* the codes of the other upstream errors: none, or one that is no rate limit
OtherErrorCodes == {0, 400}

\* the reset times the upstream sends with a rate limit: none, or a second ahead
UpstreamResets(t) == {NoReset, ResetAt(t + MsPerSecond)}

UpstreamErrors(t) ==
    {RateLimitError(x) : x \in UpstreamResets(t)}
        \cup {OtherApiError(c) : c \in OtherErrorCodes}

\* check_rate_limit_chat(err): (has_rate_limit_error, reset_time_ms)
CheckRateLimitChat(e) == [detected |-> e.kind = "rate_limit", reset |-> e.reset]

\* check_rate_limit(body): (has_rate_limit_error, reset_time_ms)
CheckRateLimit(e) == [detected |-> e.kind = "rate_limit", reset |-> e.reset]

\* line 258: code = e.code or code
ErrorStatus(e) == IF e.code # 0 THEN e.code ELSE StatusInternal

(* ------------------------ lines of an event stream ---------------------- *)
\* a line of the upstream's event stream: whether it starts with "data: ",
\* what follows, the reset time a rate-limit error carries, whether it is
\* longer than 4000 characters, and whether its JSON is spelled as the
\* upstream sent it or as json.dumps(model_dump()) spells it
Line(prefixed, kind, reset, long, form) ==
    [prefixed |-> prefixed, kind |-> kind, reset |-> reset, long |-> long,
     form |-> form]

DoneLine == Line(TRUE, "[DONE]", NoReset, FALSE, "as_sent")

\* the lines aiter_lines() can yield: a chunk, a rate-limit error, short or
\* long, the end marker, a comment line, a blank line, and the JSON body of
\* an error response, which has no "data: " in front
UpstreamLines(t) ==
    {Line(TRUE, "chunk", NoReset, FALSE, "as_sent"), DoneLine,
     Line(TRUE, "rate_limit", NoReset, TRUE, "as_sent"),
     Line(FALSE, "comment", NoReset, FALSE, "as_sent"),
     Line(FALSE, "", NoReset, FALSE, "as_sent")}
        \cup {Line(px, "rate_limit", x, FALSE, "as_sent") :
                  px \in BOOLEAN, x \in UpstreamResets(t)}

\* the chunks the SDK's stream yields: with choices or without (a usage
\* chunk), in either spelling
UpstreamChunks ==
    {Line(TRUE, k, NoReset, FALSE, f) :
        k \in {"chunk", "usage"}, f \in {"as_sent", "dumped"}}

\* line[6:] and body[6:]: the text after "data: "
Payload(line) == [line EXCEPT !.prefixed = FALSE]

\* json.dumps(chunk.model_dump())
ModelDump(line) == [line EXCEPT !.form = "dumped"]

\* lines 355, 359, 361: yield f"{line}\n\n"
OutEvent(line) == [line |-> line, end |-> "\n\n"]

\* line 210: yield json.dumps(err.body), without the delimiter
OutErrorBody(e) ==
    [line |-> Line(FALSE, e.kind, e.reset, FALSE, "dumped"), end |-> ""]

\* stream_completion, lines 352-358: the value of data after the line
RetainedData(data, line) ==
    IF ~line.prefixed THEN data
    ELSE IF Payload(line).kind = "[DONE]" THEN Payload(line)
    ELSE line

\* stream_completion, lines 352-361: what is yielded for the line
Forwarded(line) ==
    IF line.prefixed
        THEN IF Payload(line).kind = "[DONE]" THEN <<OutEvent(DoneLine)>>
                                              ELSE <<OutEvent(line)>>
    ELSE IF line.kind # "" THEN <<OutEvent(line)>>
    ELSE << >>

\* stream_response, lines 190-195: what is yielded for the chunk
ForwardedChunk(chunk) ==
    IF chunk.kind = "chunk" THEN <<OutEvent(ModelDump(chunk))>> ELSE << >>

\* the buffered bodies that signal a rate limit, of at most 4000 characters
\* or longer
RateLimitBodies(t) ==
    {Line(FALSE, "rate_limit", x, l, "as_sent") :
        x \in UpstreamResets(t), l \in BOOLEAN}

\* a faulty variant: the body is inspected also when the request used no key
CheckHttpxErrAnyRequest(body, api_key) ==
    IF body.long
        THEN [ran |-> FALSE, body |-> body, detected |-> FALSE, reset |-> NoReset]
        ELSE LET b == IF body.prefixed THEN Payload(body) ELSE body
             IN  [ran |-> TRUE, body |-> b,
                  detected |-> CheckRateLimit(b).detected,
                  reset |-> CheckRateLimit(b).reset]

\* _check_httpx_err, lines 264-274: whether the detector runs, on which text,
\* and what it reports
CheckHttpxErr(body, api_key) ==
    IF body.long \/ api_key = NoKey
        THEN [ran |-> FALSE, body |-> body, detected |-> FALSE, reset |-> NoReset]
        ELSE LET b == IF body.prefixed THEN Payload(body) ELSE body
             IN  [ran |-> TRUE, body |-> b,
                  detected |-> CheckRateLimit(b).detected,
                  reset |-> CheckRateLimit(b).reset]

\* one more upstream send of the request, counted up to MaxSends
Sent(q) ==
    [q EXCEPT !.sends = IF q.sends < MaxSends THEN q.sends + 1 ELSE q.sends,
              !.first_key = IF q.sends = 0 THEN q.api_key ELSE q.first_key]

\* one more disable_key call of the request, counted up to MaxSends
Disabled(q) ==
    [q EXCEPT !.disables = IF q.disables < MaxSends THEN q.disables + 1 ELSE q.disables]

\* the response or the HTTPException the client receives; the handler returns
\* and its locals are gone
Answered(status, body) ==
    [NewRequest EXCEPT !.pc = "done", !.status = status, !.body = body]

\* the Authorization headers a client sends: none, an empty one, or a scheme
\* and a token separated by the first space
NoAuthorization == [present |-> FALSE, scheme |-> "", token |-> ""]
Authorization(scheme, token) == [present |-> TRUE, scheme |-> scheme, token |-> token]

\* the local access key of the configuration
AccessKey == "access_key"

Authorizations ==
    {NoAuthorization, Authorization("", "")}
        \cup {Authorization(sc, tk) : sc \in {"Bearer", "bearer", "BEARER", "Basic"},
                                      tk \in {AccessKey, "wrong", ""}}

\* scheme.lower(), line 58
LowerScheme(scheme) ==
    IF scheme \in {"Bearer", "bearer", "BEARER"} THEN "bearer"
    ELSE IF scheme = "Basic" THEN "basic"
    ELSE scheme

\* verify_access_key, lines 54-64: TRUE, or the HTTPException(401)
VerifyAccessKey(authorization, access_key) ==
    /\ authorization.present
    /\ ~(authorization.scheme = "" /\ authorization.token = "")
    /\ LowerScheme(authorization.scheme) = "bearer"
    /\ authorization.token = access_key

\* a faulty variant: the key is selected before the header is verified
ArriveRejectedAfterSelection(r) ==
    /\ req[r].pc = "new"
    /\ \E au \in Authorizations : ~VerifyAccessKey(au, AccessKey)
    /\ GetNextKeyStep
    /\ req' = [req EXCEPT ![r] = Answered(StatusUnauthorized, "unauthorized")]
    /\ UNCHANGED <<confVars, detVars, hdrVars, mdlVars, streamVars, now, histVars, lockVars>>

\* proxy_endpoint, lines 81-83: the request to an authenticated endpoint fails
\* verify_access_key and is answered 401 before anything else is done
ArriveRejected(r) ==
    /\ req[r].pc = "new"
    /\ \E au \in Authorizations : ~VerifyAccessKey(au, AccessKey)
    /\ req' = [req EXCEPT ![r] = Answered(StatusUnauthorized, "unauthorized")]
    /\ UNCHANGED <<confVars, detVars, hdrVars, mdlVars, streamVars, poolVars, now, obsVars, histVars, lockVars>>

\* proxy_endpoint, lines 77-102 and 127-137: an authenticated request arrives,
\* a key is selected, and the request goes to one of the two handlers
Arrive(r) ==
    /\ req[r].pc = "new"
    /\ \E au \in Authorizations : VerifyAccessKey(au, AccessKey)
    /\ GetNextKeyStep
    /\ \E ep \in {"completions", "httpx"}, st \in BOOLEAN :
           req' = [req EXCEPT ![r] =
                     IF call'.status = StatusAllDisabled
                         THEN Answered(StatusAllDisabled, "all_keys_disabled")
                         ELSE [@ EXCEPT !.pc = "send", !.endpoint = ep, !.is_stream = st,
                                        !.api_key = call'.key]]
    /\ UNCHANGED <<confVars, detVars, hdrVars, mdlVars, streamVars, now, histVars, lockVars>>

\* proxy_endpoint, lines 77-79 and 100-137: a request to a public endpoint
\* selects no key and goes to proxy_with_httpx with api_key = ""
ArrivePublic(r) ==
    /\ req[r].pc = "new"
    /\ \E st \in BOOLEAN :
           req' = [req EXCEPT ![r] = [@ EXCEPT !.pc = "send", !.endpoint = "httpx",
                                              !.is_stream = st, !.api_key = NoKey]]
    /\ UNCHANGED <<confVars, detVars, hdrVars, mdlVars, streamVars, poolVars, now, obsVars, histVars, lockVars>>

\* handle_completions, lines 227-238: the upstream answers without an error
CompletionOk(r) ==
    /\ req[r].pc = "send" /\ req[r].endpoint = "completions" /\ ~req[r].is_stream
    /\ req' = [req EXCEPT ![r] = Answered(StatusOk, "completion")]
    /\ UNCHANGED <<confVars, detVars, hdrVars, mdlVars, streamVars, poolVars, now, obsVars, histVars, lockVars>>

\* handle_completions, lines 180-223: the stream is opened and handed to the client
CompletionStreamOpened(r) ==
    /\ req[r].pc = "send" /\ req[r].endpoint = "completions" /\ req[r].is_stream
    /\ req' = [req EXCEPT ![r] = [Sent(@) EXCEPT !.pc = "streaming",
                                                 !.status = StatusOk]]
    /\ UNCHANGED <<confVars, detVars, hdrVars, mdlVars, streamVars, poolVars, now, obsVars, histVars, lockVars>>

\* handle_completions, lines 183, 227-233, 239: the call raises an APIError, or
\* the result carries an error
CompletionApiError(r) ==
    /\ req[r].pc = "send" /\ req[r].endpoint = "completions"
    /\ \E e \in UpstreamErrors(now) :
           req' = [req EXCEPT ![r] = [Sent(@) EXCEPT !.pc = "caught", !.err = e]]
    /\ UNCHANGED <<confVars, detVars, hdrVars, mdlVars, streamVars, poolVars, now, obsVars, histVars, lockVars>>

\* handle_completions, lines 239-242, 261: another exception is answered 500
CompletionException(r) ==
    /\ req[r].pc = "send" /\ req[r].endpoint = "completions"
    /\ req' = [req EXCEPT ![r] = Answered(StatusInternal, "proxy_error")]
    /\ UNCHANGED <<confVars, detVars, hdrVars, mdlVars, streamVars, poolVars, now, obsVars, histVars, lockVars>>

\* a faulty variant: every APIError of a request that used a key is acted on
RateLimitActionableAlways(q) == q.api_key # NoKey

\* handle_completions, lines 246-248: the request used a key and the error
\* caught signals a rate limit
RateLimitActionable(q) ==
    q.api_key # NoKey /\ CheckRateLimitChat(q.err).detected

\* handle_completions, lines 243-250: a rate limit disables the key used
CompletionRateLimited(r) ==
    /\ req[r].pc = "caught"
    /\ RateLimitActionable(req[r])
    /\ DisableKeyStep(req[r].api_key, CheckRateLimitChat(req[r].err).reset)
    /\ req' = [req EXCEPT ![r] = [Disabled(@) EXCEPT !.pc = "reselect"]]
    /\ UNCHANGED <<confVars, detVars, hdrVars, mdlVars, streamVars, now, histVars, lockVars>>

\* handle_completions, lines 243-248, 258-261: any other APIError is raised to
\* the client with the upstream's code and body
CompletionErrorRaised(r) ==
    /\ req[r].pc = "caught"
    /\ ~RateLimitActionable(req[r])
    /\ req' = [req EXCEPT ![r] = Answered(ErrorStatus(@.err), @.err.kind)]
    /\ UNCHANGED <<confVars, detVars, hdrVars, mdlVars, streamVars, poolVars, now, obsVars, histVars, lockVars>>

\* handle_completions, lines 252-257: a new key is selected and the handler is
\* called again with it; the 503 of get_next_key goes to the client
CompletionRetry(r) ==
    /\ req[r].pc = "reselect"
    /\ GetNextKeyStep
    /\ req' = [req EXCEPT ![r] =
                  IF call'.status = StatusAllDisabled
                      THEN Answered(StatusAllDisabled, "all_keys_disabled")
                      ELSE [@ EXCEPT !.pc = "send", !.api_key = call'.key]]
    /\ UNCHANGED <<confVars, detVars, hdrVars, mdlVars, streamVars, now, histVars, lockVars>>

\* stream_response, lines 188-198: the stream ends with the end marker
StreamFinished(r) ==
    /\ req[r].pc = "streaming"
    /\ req' = [req EXCEPT ![r] = Answered(StatusOk, "stream")]
    /\ UNCHANGED <<confVars, detVars, hdrVars, mdlVars, streamVars, poolVars, now, obsVars, histVars, lockVars>>

\* stream_response, lines 199-209: an APIError in the stream that signals a rate
\* limit disables the key; nothing is sent again
StreamRateLimited(r) ==
    /\ req[r].pc = "streaming"
    /\ req[r].api_key # NoKey
    /\ \E x \in UpstreamResets(now) :
           /\ CheckRateLimitChat(RateLimitError(x)).detected
           /\ DisableKeyStep(req[r].api_key, CheckRateLimitChat(RateLimitError(x)).reset)
           /\ req' = [req EXCEPT ![r] = Answered(StatusOk, "stream_cut")]
    /\ UNCHANGED <<confVars, detVars, hdrVars, mdlVars, streamVars, now, histVars, lockVars>>

\* stream_response, lines 199-211: any other APIError in the stream; its body
\* is written to the client
StreamFailed(r) ==
    /\ req[r].pc = "streaming"
    /\ \E c \in OtherErrorCodes : ~CheckRateLimitChat(OtherApiError(c)).detected
    /\ req' = [req EXCEPT ![r] = Answered(StatusOk, "stream_error")]
    /\ UNCHANGED <<confVars, detVars, hdrVars, mdlVars, streamVars, poolVars, now, obsVars, histVars, lockVars>>

\* proxy_with_httpx, lines 325-340: a buffered response without a rate limit is
\* returned with the upstream's status
HttpxAnswered(r) ==
    /\ req[r].pc = "send" /\ req[r].endpoint = "httpx" /\ ~req[r].is_stream
    /\ \E e \in {NoError} \cup {OtherApiError(c) : c \in OtherErrorCodes \ {0}} :
           /\ ~CheckRateLimit(e).detected
           /\ req' = [req EXCEPT ![r] =
                         IF e.kind = "none"
                             THEN Answered(StatusOk, "body")
                             ELSE Answered(e.code, e.kind)]
    /\ UNCHANGED <<confVars, detVars, hdrVars, mdlVars, streamVars, poolVars, now, obsVars, histVars, lockVars>>

\* proxy_with_httpx, lines 331-340, and _check_httpx_err, lines 264-274: a
\* buffered body that signals a rate limit is inspected, the key used is
\* disabled on detection, and the response is returned as the upstream sent it
HttpxRateLimitedWith(r, body) ==
    /\ req[r].pc = "send" /\ req[r].endpoint = "httpx" /\ ~req[r].is_stream
    /\ LET c == CheckHttpxErr(body, req[r].api_key)
       IN  IF c.detected
               THEN DisableKeyStep(req[r].api_key, c.reset)
               ELSE UNCHANGED <<poolVars, obsVars>>
    /\ req' = [req EXCEPT ![r] = Answered(RateLimitErrorCode, "rate_limit")]
    /\ UNCHANGED <<confVars, detVars, hdrVars, mdlVars, streamVars, now, histVars, lockVars>>

HttpxRateLimited(r) ==
    \E body \in RateLimitBodies(now) : HttpxRateLimitedWith(r, body)

\* proxy_with_httpx, lines 371-379: the connect error, the timeout, any other
\* exception
HttpxFailed(r) ==
    /\ req[r].pc = "send" /\ req[r].endpoint = "httpx"
    /\ \E st \in {StatusAllDisabled, StatusTimeout, StatusInternal} :
           req' = [req EXCEPT ![r] = Answered(st, "proxy_error")]
    /\ UNCHANGED <<confVars, detVars, hdrVars, mdlVars, streamVars, poolVars, now, obsVars, histVars, lockVars>>

\* proxy_with_httpx, lines 348-370: the event stream of a streaming request
HttpxStreamed(r) ==
    /\ req[r].pc = "send" /\ req[r].endpoint = "httpx" /\ req[r].is_stream
    /\ req[r].api_key # NoKey
    /\ req' = [req EXCEPT ![r] = [Sent(@) EXCEPT !.pc = "streaming",
                                                 !.status = StatusOk]]
    /\ UNCHANGED <<confVars, detVars, hdrVars, mdlVars, streamVars, poolVars, now, obsVars, histVars, lockVars>>

\* proxy_with_httpx, lines 341-346: the stream of a request without a key is
\* passed through as the upstream sends it
HttpxPassedThrough(r) ==
    /\ req[r].pc = "send" /\ req[r].endpoint = "httpx" /\ req[r].is_stream
    /\ req[r].api_key = NoKey
    /\ req' = [req EXCEPT ![r] = Answered(StatusOk, "raw_stream")]
    /\ UNCHANGED <<confVars, detVars, hdrVars, mdlVars, streamVars, poolVars, now, obsVars, histVars, lockVars>>

Init ==
    /\ InitConf /\ InitHistory /\ InitLock /\ InitRequests /\ InitStream /\ InitDetect /\ InitHeaders /\ InitModels
    /\ InitUsedKeyManager({0, 1, Len(keys) - 1, Len(keys)})

\* the steps of one request
RequestStep(r) ==
    \/ Arrive(r) \/ ArrivePublic(r) \/ ArriveRejected(r)
    \/ CompletionOk(r) \/ CompletionStreamOpened(r) \/ CompletionApiError(r)
    \/ CompletionException(r) \/ CompletionRateLimited(r)
    \/ CompletionErrorRaised(r) \/ CompletionRetry(r)
    \/ StreamFinished(r) \/ StreamRateLimited(r) \/ StreamFailed(r)
    \/ HttpxAnswered(r) \/ HttpxRateLimited(r) \/ HttpxFailed(r)
    \/ HttpxStreamed(r) \/ HttpxPassedThrough(r)

Next == Tick \/ \E r \in Reqs : RequestStep(r)

Spec == Init /\ [][Next]_vars

\* the event loop runs every handler that can take a step, and the upstream
\* answers every request sent to it
FairSpec == Init /\ [][Next]_vars /\ \A r \in Reqs : WF_vars(RequestStep(r))

(* ----------------------- steps of one event stream --------------------- *)
\* proxy_with_httpx, lines 348-366, and handle_completions, lines 188-223:
\* the generator is handed to the client; both are reached only by requests
\* that used a key
StreamStarts ==
    /\ strm.pc = "idle"
    /\ \E ep \in {"completions", "httpx"} :
          strm' = [strm EXCEPT !.pc = "reading", !.endpoint = ep,
                               !.api_key = keys[1]]
    /\ UNCHANGED <<confVars, detVars, hdrVars, mdlVars, reqVars, poolVars, now, obsVars, histVars, lockVars>>

\* stream_completion, lines 351-361: one line is read and forwarded
HttpxLineRead ==
    /\ strm.pc = "reading" /\ strm.endpoint = "httpx"
    /\ Len(strm.received) < MaxLines
    /\ \E line \in UpstreamLines(now) :
          strm' = [strm EXCEPT !.received = Append(@, line),
                               !.data = RetainedData(@, line),
                               !.out = @ \o Forwarded(line)]
    /\ UNCHANGED <<confVars, detVars, hdrVars, mdlVars, reqVars, poolVars, now, obsVars, histVars, lockVars>>

\* stream_completion, line 351: the upstream closes the stream
HttpxStreamEnds ==
    /\ strm.pc = "reading" /\ strm.endpoint = "httpx"
    /\ strm' = [strm EXCEPT !.pc = "check"]
    /\ UNCHANGED <<confVars, detVars, hdrVars, mdlVars, reqVars, poolVars, now, obsVars, histVars, lockVars>>

\* stream_completion, lines 362-363: reading raises; the error is logged
HttpxStreamBreaks ==
    /\ strm.pc = "reading" /\ strm.endpoint = "httpx"
    /\ strm' = [strm EXCEPT !.pc = "check", !.failed = TRUE]
    /\ UNCHANGED <<confVars, detVars, hdrVars, mdlVars, reqVars, poolVars, now, obsVars, histVars, lockVars>>

\* stream_completion, line 364: await _check_httpx_err(data, api_key)
HttpxStreamChecked ==
    /\ strm.pc = "check"
    /\ LET c == CheckHttpxErr(strm.data, strm.api_key)
       IN  /\ strm' = [strm EXCEPT !.pc = "done",
                                    !.checked = IF c.ran THEN Append(@, c.body) ELSE @]
           /\ IF c.detected
                  THEN DisableKeyStep(strm.api_key, c.reset)
                  ELSE UNCHANGED <<poolVars, obsVars>>
    /\ UNCHANGED <<confVars, detVars, hdrVars, mdlVars, reqVars, now, histVars, lockVars>>

\* stream_response, lines 190-195: one chunk is read; it is forwarded if it
\* has choices
SdkChunkRead ==
    /\ strm.pc = "reading" /\ strm.endpoint = "completions"
    /\ Len(strm.received) < MaxLines
    /\ \E chunk \in UpstreamChunks :
          strm' = [strm EXCEPT !.received = Append(@, chunk),
                               !.out = @ \o ForwardedChunk(chunk)]
    /\ UNCHANGED <<confVars, detVars, hdrVars, mdlVars, reqVars, poolVars, now, obsVars, histVars, lockVars>>

\* stream_response, lines 197-198: the stream ends; the end marker is sent
SdkStreamEnds ==
    /\ strm.pc = "reading" /\ strm.endpoint = "completions"
    /\ strm' = [strm EXCEPT !.pc = "done", !.out = Append(@, OutEvent(DoneLine))]
    /\ UNCHANGED <<confVars, detVars, hdrVars, mdlVars, reqVars, poolVars, now, obsVars, histVars, lockVars>>

\* stream_response, lines 199-209: the stream raises an APIError that signals
\* a rate limit; the key is disabled
SdkStreamRateLimited ==
    /\ strm.pc = "reading" /\ strm.endpoint = "completions"
    /\ strm.api_key # NoKey
    /\ \E e \in UpstreamErrors(now) :
          /\ CheckRateLimitChat(e).detected
          /\ DisableKeyStep(strm.api_key, CheckRateLimitChat(e).reset)
          /\ strm' = [strm EXCEPT !.pc = "done", !.failed = TRUE,
                                   !.checked = Append(@, Line(FALSE, e.kind, e.reset,
                                                              FALSE, "as_sent"))]
    /\ UNCHANGED <<confVars, detVars, hdrVars, mdlVars, reqVars, now, histVars, lockVars>>

\* stream_response, lines 199-211: the stream raises another APIError, or the
\* request used no key; with a key the error body is written to the client
SdkStreamFails ==
    /\ strm.pc = "reading" /\ strm.endpoint = "completions"
    /\ \E e \in UpstreamErrors(now) :
          /\ strm.api_key # NoKey => ~CheckRateLimitChat(e).detected
          /\ strm' = [strm EXCEPT !.pc = "done", !.failed = TRUE,
                                   !.out = IF strm.api_key # NoKey
                                              THEN Append(@, OutErrorBody(e)) ELSE @]
    /\ UNCHANGED <<confVars, detVars, hdrVars, mdlVars, reqVars, poolVars, now, obsVars, histVars, lockVars>>

StreamNext ==
    \/ StreamStarts
    \/ HttpxLineRead \/ HttpxStreamEnds \/ HttpxStreamBreaks \/ HttpxStreamChecked
    \/ SdkChunkRead \/ SdkStreamEnds \/ SdkStreamRateLimited \/ SdkStreamFails

StreamSpec == InitDisable /\ [][StreamNext]_vars

(* ----------------------- detection of a rate limit ---------------------- *)
\* constants.py, line 13
RATE_LIMIT_ERROR_MESSAGE == "Rate limit exceeded: free-models-per-day"

\* the decimal digits, and the text of an integer as str() writes it
DigitChars == <<"0", "1", "2", "3", "4", "5", "6", "7", "8", "9">>

RECURSIVE DigitsOf(_)
DigitsOf(n) ==
    IF n < Len(DigitChars)
        THEN <<DigitChars[n + 1]>>
        ELSE Append(DigitsOf(n \div Len(DigitChars)),
                    DigitChars[(n % Len(DigitChars)) + 1])

DigitValue(c) == (CHOOSE i \in 1..Len(DigitChars) : DigitChars[i] = c) - 1

RECURSIVE IntValue(_)
IntValue(s) ==
    IF Len(s) = 0
        THEN 0
        ELSE Len(DigitChars) * IntValue(SubSeq(s, 1, Len(s) - 1))
                 + DigitValue(s[Len(s)])

\* int(text), lines 124, 146 and 191: the value, or ValueError
ParseInt(s) ==
    IF Len(s) > 0 /\ \A i \in 1..Len(s) : s[i] \in Range(DigitChars)
        THEN [ok |-> TRUE, value |-> IntValue(s)]
        ELSE [ok |-> FALSE, value |-> 0]

\* an X-RateLimit-Reset field: missing, or present with a text
NoField == [present |-> FALSE, text |-> << >>]
Field(text) == [present |-> TRUE, text |-> text]

\* the reset fields the upstream sends: none, a time in ms, a word, nothing
ResetFields ==
    {NoField, Field(<<"s", "o", "o", "n">>), Field(<< >>)}
        \cup {Field(DigitsOf(k * MsPerSecond)) : k \in 1..(MaxTicks + 1)}

\* a response body: text that is not JSON, JSON that is a number or a list,
\* or a JSON object; its "error" member is missing, null or an object with
\* an optional code, an optional message and optional metadata
Body(shape, error, code, message, meta, reset) ==
    [shape |-> shape, error |-> error, code |-> code, message |-> message,
     meta |-> meta, reset |-> reset]

NoMessage == ""

Messages == {NoMessage, RATE_LIMIT_ERROR_MESSAGE, "Provider returned error"}

ErrorObjects ==
    {Body("object", "object", c, msg, mt, NoField) :
        c \in {RateLimitErrorCode} \cup OtherErrorCodes, msg \in Messages,
        mt \in {"absent", "null", "no_headers"}}
      \cup
    {Body("object", "object", c, msg, "headers", x) :
        c \in {RateLimitErrorCode} \cup OtherErrorCodes, msg \in Messages,
        x \in ResetFields}

Bodies ==
    {Body(sh, "absent", 0, NoMessage, "absent", NoField) :
        sh \in {"text", "number", "list", "object"}}
      \cup {Body("object", "null", 0, NoMessage, "absent", NoField)}
      \cup ErrorObjects

\* an httpx Response: the X-RateLimit-Reset header, whether the content type
\* holds application/json, and the body
Responses ==
    [reset_header : ResetFields, json_type : BOOLEAN, body : Bodies]

\* a detector's return value, or the exception that left it
Signal(detected, reset) == [raised |-> FALSE, detected |-> detected, reset |-> reset]
Raised == [raised |-> TRUE, detected |-> FALSE, reset |-> NoReset]

\* lines 122-127 and 144-151: the field as an integer, when it parses
FieldReset(field, otherwise) ==
    IF field.present /\ ParseInt(field.text).ok
        THEN ResetAt(ParseInt(field.text).value)
        ELSE otherwise

\* lines 134-138 and 180-184: "error" in data, "message" in data["error"],
\* and the message is the configured one
MessageMatches(body) ==
    /\ body.shape = "object" /\ body.error = "object"
    /\ body.message # NoMessage
    /\ body.message = RATE_LIMIT_ERROR_MESSAGE

\* utils.check_rate_limit_error, lines 106-156; every exception of the JSON
\* part is caught at line 153
check_rate_limit_error(response) ==
    LET header == FieldReset(response.reset_header, NoReset)
    IN  IF response.json_type /\ MessageMatches(response.body)
            THEN Signal(TRUE, IF response.body.meta = "headers"
                                  THEN FieldReset(response.body.reset, header)
                                  ELSE header)
            ELSE Signal(FALSE, header)

\* utils.parse_rate_limit_from_sse, lines 158-202, on a chunk of one line;
\* only json.JSONDecodeError is caught (line 199), so a TypeError of the
\* membership tests on a number or on null leaves the function
parse_rate_limit_from_sse(prefixed, body) ==
    IF ~prefixed \/ body.shape = "text"
        THEN Signal(FALSE, NoReset)
    ELSE IF body.shape = "number" \/ (body.shape = "object" /\ body.error = "null")
        THEN Raised
    ELSE IF ~MessageMatches(body)
        THEN Signal(FALSE, NoReset)
    ELSE IF body.meta = "null"
        THEN Raised
    ELSE Signal(TRUE, IF body.meta = "headers"
                          THEN FieldReset(body.reset, NoReset)
                          ELSE NoReset)

\* a detector about to run on a response, or on the body as one line of an
\* event stream
DetectInputs ==
    {[op |-> "input", response |-> rs, prefixed |-> px, out |-> Signal(FALSE, NoReset)] :
        rs \in Responses, px \in BOOLEAN}

CheckRateLimitErrorStep ==
    /\ det.op = "input"
    /\ det' = [det EXCEPT !.op = "body", !.out = check_rate_limit_error(det.response)]
    /\ UNCHANGED <<confVars, hdrVars, mdlVars, streamVars, reqVars, poolVars, now, obsVars, histVars,
                   lockVars>>

ParseRateLimitFromSseStep ==
    /\ det.op = "input"
    /\ det' = [det EXCEPT !.op = "sse",
                          !.out = parse_rate_limit_from_sse(det.prefixed,
                                                            det.response.body)]
    /\ UNCHANGED <<confVars, hdrVars, mdlVars, streamVars, reqVars, poolVars, now, obsVars, histVars,
                   lockVars>>

InitDetectSpec ==
    /\ InitConf /\ InitKeyManager /\ InitHistory /\ InitLock /\ InitRequests
    /\ InitStream /\ InitHeaders /\ InitModels
    /\ strategy = "first" /\ ~use_last_key /\ cooldown_seconds = 0
    /\ det \in DetectInputs

DetectNext == CheckRateLimitErrorStep \/ ParseRateLimitFromSseStep

DetectSpec == InitDetectSpec /\ [][DetectNext]_vars

(* ------------------- headers of the outbound request -------------------- *)
\* the header names a client can send, in two spellings each
HeaderNames ==
    {"host", "Host", "content-length", "Content-Length", "connection",
     "CONNECTION", "authorization", "Authorization", "accept", "Accept"}

\* str.lower() on a header name
Lower(name) ==
    CASE name \in {"host", "Host"} -> "host"
      [] name \in {"content-length", "Content-Length"} -> "content-length"
      [] name \in {"connection", "CONNECTION"} -> "connection"
      [] name \in {"authorization", "Authorization"} -> "authorization"
      [] OTHER -> "accept"

\* lines 158-159 and 307-308: the names that are not copied
HeadersToRemove == {"host", "content-length", "connection", "authorization"}

\* a header: the name as spelled, and the value: a text, followed by an
\* upstream key or not
Header_(name, text, key) == [name |-> name, text |-> text, key |-> key]

\* the client's own headers carry the client's values, its authorization the
\* local access key
InboundHeader(name) ==
    Header_(name, IF Lower(name) = "authorization" THEN "Bearer access_key"
                                                   ELSE "inbound", NoKey)

\* line 321 and get_openai_client: Authorization: Bearer <api_key>
BearerHeader(api_key) == Header_("Authorization", "Bearer ", api_key)

\* a faulty variant: the name is compared as spelled
ForwardedSpelled(h) == h.name \notin HeadersToRemove

\* lines 155-160 and 304-309: k.lower() not in [...]
ForwardedHeader(h) == Lower(h.name) \notin HeadersToRemove

\* proxy_with_httpx, lines 304-321: the headers of the outbound request
HttpxHeaders(inbound, api_key) ==
    {h \in inbound : ForwardedHeader(h)}
        \cup (IF api_key # NoKey THEN {BearerHeader(api_key)} ELSE {})

\* handle_completions, lines 155-160 and 177-185: extra_headers, and the
\* Authorization header of the client made with api_key
CompletionsHeaders(inbound, api_key) ==
    {h \in inbound : ForwardedHeader(h)} \cup {BearerHeader(api_key)}

HeaderInputs ==
    {[op |-> "input", inbound |-> {InboundHeader(n) : n \in ns}, api_key |-> NoKey,
      outbound |-> {}] : ns \in SUBSET HeaderNames}

\* proxy_with_httpx builds the request, with a key or for a public endpoint
HttpxRequestBuilt ==
    /\ hdr.op = "input"
    /\ \E k \in {NoKey, keys[1]} :
          hdr' = [hdr EXCEPT !.op = "httpx", !.api_key = k,
                             !.outbound = HttpxHeaders(hdr.inbound, k)]
    /\ UNCHANGED <<confVars, detVars, mdlVars, streamVars, reqVars, poolVars, now,
                   obsVars, histVars, lockVars>>

\* handle_completions builds the request; its endpoints are never public
CompletionsRequestBuilt ==
    /\ hdr.op = "input"
    /\ hdr' = [hdr EXCEPT !.op = "completions", !.api_key = keys[1],
                          !.outbound = CompletionsHeaders(hdr.inbound, keys[1])]
    /\ UNCHANGED <<confVars, detVars, mdlVars, streamVars, reqVars, poolVars, now,
                   obsVars, histVars, lockVars>>

InitHeaderSpec ==
    /\ InitConf /\ InitKeyManager /\ InitHistory /\ InitLock /\ InitRequests
    /\ InitStream /\ InitDetect /\ InitModels
    /\ strategy = "first" /\ ~use_last_key /\ cooldown_seconds = 0
    /\ hdr \in HeaderInputs

HeaderNext == HttpxRequestBuilt \/ CompletionsRequestBuilt

HeaderSpec == InitHeaderSpec /\ [][HeaderNext]_vars

(* --------------------- free-only filter of the models ------------------- *)
\* _remove_paid_models, line 278
Prices ==
    {"prompt", "completion", "request", "image", "web_search", "internal_reasoning"}

ZeroPricing == [k \in Prices |-> "0"]

\* the pricings an entry can carry: all "0", one price that is not "0", one
\* price missing
Pricings ==
    {ZeroPricing, [ZeroPricing EXCEPT !["prompt"] = "absent"]}
        \cup {[ZeroPricing EXCEPT ![k] = "0.1"] : k \in Prices}

\* an entry of the listing: a JSON object with an id and with a "pricing"
\* member that is an object, missing or null; or a JSON string
Model(id, shape, pricing, prices) ==
    [id |-> id, shape |-> shape, pricing |-> pricing, prices |-> prices]

ModelsAt(id) ==
    {Model(id, "object", "object", pr) : pr \in Pricings}
        \cup {Model(id, "object", pk, ZeroPricing) : pk \in {"absent", "null"}}
        \cup {Model(id, "string", "absent", ZeroPricing)}

\* the listings of up to MaxModels entries, the n-th with the id n
Listings ==
    UNION {{ms \in [1..n -> UNION {ModelsAt(i) : i \in 1..n}] :
               \A i \in 1..n : ms[i].id = i} : n \in 0..MaxModels}

\* a body: text that is not JSON, JSON that is a number or a list, or a JSON
\* object whose "data" member is missing, a string or a list of entries; and
\* whether it is spelled as the upstream sent it or as json.dumps spells it
ModelsBody(shape, data, models, form) ==
    [shape |-> shape, data |-> data, models |-> models, form |-> form]

ModelsBodies ==
    {ModelsBody(sh, "absent", << >>, "as_sent") : sh \in {"text", "number", "list", "object"}}
        \cup {ModelsBody("object", "string", << >>, "as_sent")}
        \cup {ModelsBody("object", "list", ms, "as_sent") : ms \in Listings}

\* line 287: all(model.get("pricing", {}).get(k, "1") == "0" for k in prices)
IsFree(model) ==
    model.pricing = "object" /\ \A k \in Prices : model.prices[k] = "0"

\* lines 284 and 287: data.get and model.get on a value that is not a dict,
\* and .get on a pricing that is null, raise AttributeError
FilterRaises(body) ==
    \/ body.shape \in {"number", "list"}
    \/ /\ body.shape = "object" /\ body.data = "list"
       /\ \E i \in 1..Len(body.models) :
             body.models[i].shape # "object" \/ body.models[i].pricing = "null"

\* _remove_paid_models, lines 276-292: the body returned, or the exception
RemovePaidModels(body) ==
    IF body.shape = "text" THEN [raised |-> FALSE, body |-> body]
    ELSE IF FilterRaises(body) THEN [raised |-> TRUE, body |-> body]
    ELSE IF body.data # "list" THEN [raised |-> FALSE, body |-> body]
    ELSE LET clear_data == SelectSeq(body.models, IsFree)
         IN  IF clear_data # << >>
                 THEN [raised |-> FALSE,
                       body |-> [body EXCEPT !.models = clear_data, !.form = "dumped"]]
                 ELSE [raised |-> FALSE, body |-> body]

ModelsFiltered ==
    /\ mdl.op = "input"
    /\ mdl' = [mdl EXCEPT !.op = "filtered", !.out = RemovePaidModels(mdl.body)]
    /\ UNCHANGED <<confVars, detVars, hdrVars, streamVars, reqVars, poolVars, now,
                   obsVars, histVars, lockVars>>

InitModelsSpec ==
    /\ InitConf /\ InitKeyManager /\ InitHistory /\ InitLock /\ InitRequests
    /\ InitStream /\ InitDetect /\ InitHeaders
    /\ strategy = "first" /\ ~use_last_key /\ cooldown_seconds = 0
    /\ \E b \in ModelsBodies :
          mdl = [op |-> "input", body |-> b, out |-> [raised |-> FALSE, body |-> b]]

ModelsNext == ModelsFiltered

ModelsSpec == InitModelsSpec /\ [][ModelsNext]_vars

(* ------------------------ properties of the retry ------------------------ *)
\* C1: a request is sent upstream at most twice: after the retried send no
\* further key is selected and nothing is sent again
AtMostOneRetry == \A r \in Reqs : req[r].sends <= 2

\* C2: when the first send of a non-streaming request is answered with a rate
\* limit and the second with a success, the key of the first send was disabled
\* once, the second send used a different key, and the client receives the
\* success
RetryOnOtherKeySucceeds ==
    [][\A r \in Reqs :
          (CompletionOk(r) /\ req[r].sends = 1)
              => /\ req[r].disables = 1
                 /\ req[r].api_key # req[r].first_key
                 /\ req'[r].pc = "done"
                 /\ req'[r].status = StatusOk
                 /\ req'[r].body = "completion"]_vars

InCall(p) == proc[p].pc \notin {"idle", "done"}

(* C4: under any interleaving of concurrent get_next_key and disable_key      *)
(* calls each call takes effect atomically: at most one coroutine is inside a *)
(* call and it holds the lock; when a call ends, the cursor, last_key, the    *)
(* disabled map, the result and the log are those of the whole call applied   *)
(* as one step to the pool it found on entry (so an expired entry one call    *)
(* removed is not left behind); and with round-robin, sticky off and no key   *)
(* ever disabled, the concurrent calls return pairwise distinct keys.         *)
CallsAreAtomic ==
    /\ [](\A p \in Procs : InCall(p) => (lock = p /\ \A q \in Procs \ {p} : ~InCall(q)))
    /\ [][\A p \in Procs :
            /\ Return(p) =>
                  \E o \in GetNextKeyOutcomes(keys, proc[p].s_index, proc[p].s_disabled,
                                              proc[p].s_last, proc[p].now_, strategy,
                                              use_last_key) :
                      /\ o.call.status = StatusOk
                      /\ <<o.index, o.disabled, o.last>> = <<current_index, disabled_until, last_key>>'
                      /\ <<o.call, o.log>> = <<call, log>>'
            /\ RaiseAllDisabled(p) =>
                  \E o \in GetNextKeyOutcomes(keys, proc[p].s_index, proc[p].s_disabled,
                                              proc[p].s_last, proc[p].now_, strategy,
                                              use_last_key) :
                      /\ o.call.status = StatusAllDisabled
                      /\ <<o.index, o.disabled, o.last>> = <<current_index, disabled_until, last_key>>'
                      /\ <<o.call, o.log>> = <<call, log>>'
            /\ Write(p) =>
                  LET o == DisableKeyOutcome(proc[p].s_disabled, proc[p].arg_key,
                                             proc[p].arg_reset, proc[p].now_,
                                             cooldown_seconds)
                  IN  /\ <<proc[p].s_index, o.disabled, proc[p].s_last>>
                             = <<current_index, disabled_until, last_key>>'
                      /\ <<o.call, o.log>> = <<call, log>>'
            /\ call'.status # StatusUnbound
         ]_vars
    /\ []((pristine /\ strategy = "round-robin" /\ ~use_last_key) =>
            \A i, j \in 1..Len(history) : i # j => history[i] # history[j])

\* every coroutine has called get_next_key once, and no key was ever disabled
AllCoroutinesServed ==
    /\ pristine /\ strategy = "round-robin" /\ ~use_last_key
    /\ \A p \in Procs : proc[p].pc = "done"
    /\ Len(history) = Len(keys)

(* ------------------------ properties of the pool ----------------------- *)
\* the keys that are available at this moment: no entry, or the deadline reached
AvailableNow == {k \in Range(keys) : k \notin DOMAIN disabled_until \/ disabled_until[k] <= now}

EnabledRecord(k) == [ev |-> "enabled", key |-> k, ms |-> 0]

(* C5: with strategy round-robin, sticky off and no key ever disabled, the    *)
(* calls of get_next_key from the initial cursor return the keys in insertion *)
(* order, each once per round of N calls, and the next round repeats it.      *)
RoundRobinOrder ==
    (pristine /\ strategy = "round-robin" /\ ~use_last_key) =>
        \A i \in 1..Len(history) : history[i] = keys[((i - 1) % Len(keys)) + 1]

RoundRobinTwoRounds ==
    /\ pristine /\ strategy = "round-robin" /\ ~use_last_key
    /\ Len(history) = 2 * Len(keys)

(* C6: a get_next_key call made before a disabled key's deadline does not     *)
(* return that key and keeps its entry; the first call made at or after the   *)
(* deadline counts the key as available, removes the entry and logs one       *)
(* "enabled again" record; no other step logs that record, and only a         *)
(* disable_key call on the key creates an entry again.                        *)
ReenabledOncePerCycle ==
    [][ /\ NextCall =>
            \A k \in Range(keys) :
                /\ (k \in DOMAIN disabled_until /\ now < disabled_until[k]) =>
                       /\ call'.key # k
                       /\ k \in DOMAIN disabled_until'
                       /\ disabled_until'[k] = disabled_until[k]
                       /\ EnabledRecord(k) \notin log'
                /\ (k \in DOMAIN disabled_until /\ now >= disabled_until[k]) =>
                       /\ k \notin DOMAIN disabled_until'
                       /\ EnabledRecord(k) \in log'
                       /\ call'.status = StatusOk
                       /\ (AvailableNow = {k} => call'.key = k)
                /\ k \notin DOMAIN disabled_until =>
                       /\ k \notin DOMAIN disabled_until'
                       /\ EnabledRecord(k) \notin log'
        /\ \A k \in Range(keys) :
                /\ (k \notin DOMAIN disabled_until /\ k \in DOMAIN disabled_until') =>
                       (call'.op = "disable" /\ call'.key = k)
                /\ (call'.op = "disable") => EnabledRecord(k) \notin log'
      ]_vars

\* a key was re-enabled by the call that returned it, the only available one
ReenabledKeyReturned ==
    /\ call.op = "next" /\ call.status = StatusOk
    /\ EnabledRecord(call.key) \in log
    /\ \A k \in Range(keys) \ {call.key} :
           k \in DOMAIN disabled_until /\ disabled_until[k] > now

(* C7: when every key has a deadline later than now, get_next_key raises the  *)
(* 503 in that same step and logs a wait time that is positive and equals the *)
(* soonest deadline minus now.                                                *)
AllDisabledFailsWithSoonest ==
    [][ (NextCall /\ \A k \in Range(keys) :
                        k \in DOMAIN disabled_until /\ disabled_until[k] > now) =>
            /\ call'.status = StatusAllDisabled
            /\ call'.key = NoKey
            /\ \E k \in Range(keys) :
                   /\ \A j \in Range(keys) : disabled_until[k] <= disabled_until[j]
                   /\ disabled_until[k] - now > 0
                   /\ log' = {[ev |-> "all_disabled", key |-> NoKey,
                               ms |-> disabled_until[k] - now]}
      ]_vars

\* the call failed while the keys had different deadlines
AllDisabledSeen ==
    /\ call.op = "next" /\ call.status = StatusAllDisabled
    /\ \E e \in log : e.ev = "all_disabled" /\ e.ms > 0
    /\ \E j, k \in DOMAIN disabled_until : disabled_until[j] < disabled_until[k]

(* C8: for every strategy, sticky or not, the key get_next_key returns is one *)
(* of the configured keys and is available at the moment of the call: it has  *)
(* no entry with a deadline later than now.                                   *)
ReturnedKeyIsAvailable ==
    [][ (NextCall /\ call'.status = StatusOk) =>
            /\ call'.key \in Range(keys)
            /\ (call'.key \notin DOMAIN disabled_until
                    \/ disabled_until[call'.key] <= now)
      ]_vars

\* a key was returned while the first configured key was cooling down
ReturnedWhileFirstDisabled ==
    /\ call.op = "next" /\ call.status = StatusOk
    /\ keys[1] \in DOMAIN disabled_until /\ disabled_until[keys[1]] > now
    /\ strategy = "first"

\* the key the strategy alone selects among the available keys
StrategyChoice(avail) ==
    IF strategy = "round-robin"
        THEN {keys[((current_index + d) % Len(keys)) + 1] :
                d \in {e \in 0..(Len(keys) - 1) :
                         /\ keys[((current_index + e) % Len(keys)) + 1] \in avail
                         /\ \A f \in 0..(e - 1) :
                                keys[((current_index + f) % Len(keys)) + 1] \notin avail}}
    ELSE IF strategy = "first"
        THEN {keys[i] : i \in {j \in 1..Len(keys) :
                                 /\ keys[j] \in avail
                                 /\ \A h \in 1..(j - 1) : keys[h] \notin avail}}
    ELSE avail

(* C9: with the sticky option set and last_key available, get_next_key        *)
(* returns last_key whatever the strategy and the cursor; otherwise the       *)
(* strategy decides, and the key returned becomes last_key.                   *)
StickyOverridesStrategy ==
    [][ (NextCall /\ AvailableNow # {}) =>
            /\ (use_last_key /\ last_key \in AvailableNow) =>
                   (call'.key = last_key /\ last_key' = last_key)
            /\ ~(use_last_key /\ last_key \in AvailableNow) =>
                   (call'.key \in StrategyChoice(AvailableNow) /\ last_key' = call'.key)
      ]_vars

\* last_key was returned although the first key, available, comes before it
StickyKeptOverFirst ==
    /\ use_last_key /\ strategy = "first"
    /\ call.op = "next" /\ call.status = StatusOk
    /\ call.key = last_key /\ call.key # keys[1]
    /\ keys[1] \notin DOMAIN disabled_until

(* C10: disable_key sets the key's deadline to the reset time exactly when a  *)
(* reset time is given and is strictly later than now; otherwise (absent,     *)
(* zero, unusable, equal to now, in the past) to now + cooldown_seconds.      *)
DisableDeadlineRule ==
    [][ \A k \in Range(keys), r \in ResetInputs(now) :
            DisableWith(k, r) =>
                /\ k \in DOMAIN disabled_until'
                /\ disabled_until'[k] =
                       IF r.kind = "ms" /\ r.ms > now
                           THEN r.ms
                           ELSE now + cooldown_seconds * MsPerSecond
      ]_vars

\* a reset time was used: the deadline is later than a zero cooldown gives
ResetTimeUsed ==
    /\ call.op = "disable" /\ cooldown_seconds = 0
    /\ call.key \in DOMAIN disabled_until
    /\ disabled_until[call.key] > now

(* C11: disable_key on a key that already has a deadline replaces it with   *)
(* the deadline the call computes, also when that one is earlier; the other  *)
(* entries are left as they were. After any sequence of calls the stored     *)
(* deadline is the one of the last call.                                     *)
DisableOverwrites ==
    [][ \A k \in Range(keys), r \in ResetInputs(now) :
            OverwriteCall(k, r) =>
                /\ DOMAIN disabled_until' = DOMAIN disabled_until \cup {k}
                /\ disabled_until'[k] =
                       IF r.kind = "ms" /\ r.ms > now
                           THEN r.ms
                           ELSE now + cooldown_seconds * MsPerSecond
                /\ \A x \in DOMAIN disabled_until \ {k} :
                       disabled_until'[x] = disabled_until[x]
      ]_vars

\* a later deadline was replaced by an earlier one
EarlierDeadlineStored ==
    /\ call.op = "disable" /\ history # << >>
    /\ history[1].earlier
    /\ history[1].key \in DOMAIN disabled_until
    /\ disabled_until[history[1].key] = history[1].computed

(* ----------------------- properties of the stream ----------------------- *)
\* the data: lines of a stream that are not the end marker
DataLines(received) ==
    SelectSeq(received, LAMBDA l : l.prefixed /\ Payload(l).kind # "[DONE]")

\* the stream of a request that used a key has been forwarded and checked,
\* and it had a data: payload of at most 4000 characters as its last one
StreamWithPayloadDone ==
    /\ strm.pc = "done" /\ strm.endpoint = "httpx" /\ strm.api_key # NoKey
    /\ DataLines(strm.received) # << >>
    /\ ~DataLines(strm.received)[Len(DataLines(strm.received))].long

(* C12: after an event stream has finished the detector has run exactly once, *)
(* on the last data: payload seen that is not the [DONE] end marker, and      *)
(* never on the end marker: for (a, b, [DONE]) the payload evaluated is b.    *)
DetectorRunsOnLastPayload ==
    StreamWithPayloadDone =>
        /\ strm.checked =
               <<Payload(DataLines(strm.received)[Len(DataLines(strm.received))])>>
        /\ \A i \in 1..Len(strm.checked) : strm.checked[i].kind # "[DONE]"

\* the lines of a stream that are not blank
NonBlankLines(received) == SelectSeq(received, LAMBDA l : l.prefixed \/ l.kind # "")

(* C13: when the last event of a stream that is not the [DONE] marker is a   *)
(* rate-limit signal, with or without a [DONE] after it, the key the request *)
(* used is disabled once the stream has finished, and what was forwarded     *)
(* stays as it was: one event per line, nothing sent again.                  *)
StreamRateLimitDisablesKey ==
    /\ (/\ StreamWithPayloadDone
        /\ DataLines(strm.received)[Len(DataLines(strm.received))].kind = "rate_limit")
           => /\ strm.api_key \in DOMAIN disabled_until
              /\ Len(strm.out) = Len(NonBlankLines(strm.received))
    /\ (/\ strm.pc = "done" /\ strm.endpoint = "completions"
        /\ strm.checked # << >> /\ strm.checked[1].kind = "rate_limit")
           => /\ strm.api_key \in DOMAIN disabled_until
              /\ Len(strm.out) =
                     Len(SelectSeq(strm.received, LAMBDA c : c.kind = "chunk"))

(* C14: a request sent in streaming mode is sent upstream once only: it is  *)
(* never sent again with a second key, also when the rate limit is signalled *)
(* before anything was forwarded to the client.                              *)
StreamingNeverResent ==
    \A r \in Reqs : req[r].is_stream => req[r].sends <= 1

\* every line of the sequence as the event it is forwarded as, unchanged
AsEvents(lines) == [i \in 1..Len(lines) |-> OutEvent(lines[i])]

(* C15: at every moment of a stream the events sent to the client are the    *)
(* lines received so far, in the order received, each with unchanged content *)
(* and the blank-line delimiter, one event per line, none dropped, added or  *)
(* reordered, the last line received already forwarded.                      *)
EventsForwardedInOrder ==
    /\ (strm.endpoint = "httpx" /\ strm.pc \in {"reading", "check", "done"})
           => strm.out = AsEvents(NonBlankLines(strm.received))
    /\ (strm.endpoint = "completions" /\ strm.pc = "reading")
           => strm.out = AsEvents(strm.received)

(* C16: when a buffered response to a request that used a key signals a     *)
(* rate limit, whatever the length of the body, the key used for the send is *)
(* disabled, until the reset time the body carries or else for the cooldown, *)
(* and no other key's entry changes.                                         *)
BufferedRateLimitDisablesKey ==
    [][ \A r \in Reqs, b \in RateLimitBodies(now) :
            (HttpxRateLimitedWith(r, b) /\ req[r].api_key # NoKey) =>
                /\ req[r].api_key \in DOMAIN disabled_until'
                /\ disabled_until'[req[r].api_key] =
                       IF b.reset.kind = "ms" /\ b.reset.ms > now
                           THEN b.reset.ms
                           ELSE now + cooldown_seconds * MsPerSecond
                /\ \A k \in DOMAIN disabled_until' \ {req[r].api_key} :
                       k \in DOMAIN disabled_until
                           /\ disabled_until'[k] = disabled_until[k]
      ]_vars

(* C17: an upstream error that is no rate-limit signal, a connect error     *)
(* (503) and a timeout (504) leave the pool as it is: no key is disabled, no *)
(* key is selected, nothing is sent again, and the request is answered with  *)
(* the error.                                                                *)
OtherErrorsLeaveKey ==
    [][ \A r \in Reqs :
          /\ (req[r].pc = "caught" /\ req[r].err.kind = "api_error"
                  /\ req'[r] # req[r])
                => /\ UNCHANGED poolVars
                   /\ req'[r].pc = "done" /\ req'[r].body = "api_error"
                   /\ req'[r].status = IF req[r].err.code # 0
                                           THEN req[r].err.code ELSE StatusInternal
          /\ (req[r].pc = "send" /\ req'[r].pc = "done"
                  /\ req'[r].body \in {"api_error", "proxy_error"})
                => /\ UNCHANGED poolVars
                   /\ req'[r].status \in
                          (OtherErrorCodes \ {0}) \cup
                              {StatusAllDisabled, StatusTimeout, StatusInternal}
      ]_vars

\* a request was answered with the upstream's error and the key it was sent
\* with is not disabled
ErrorPassedKeyKept ==
    \E r \in Reqs :
        /\ req[r].pc = "done" /\ req[r].body = "api_error"
        /\ req[r].status \in OtherErrorCodes \ {0}
        /\ call.op = "next" /\ call.key \notin DOMAIN disabled_until

(* C18: a request to a public endpoint selects no key, disables no key and  *)
(* is sent once: from its arrival to its answer the cursor, last_key and the *)
(* disabled map stay as they were, also when the response signals a rate     *)
(* limit.                                                                    *)
PublicRequestLeavesPool ==
    [][ \A r \in Reqs :
          /\ (req[r].pc = "new" /\ req'[r].pc = "send" /\ req'[r].api_key = NoKey)
                => UNCHANGED <<poolVars, obsVars>>
          /\ (req[r].pc \in {"send", "streaming", "caught", "reselect"}
                  /\ req[r].api_key = NoKey)
                => /\ UNCHANGED <<poolVars, obsVars>>
                   /\ req[r].sends = 0
                   /\ req'[r].pc \in {req[r].pc, "done"}
      ]_vars

\* a public request was answered with a rate-limit body and no KeyManager
\* call was ever made
PublicRateLimitAnswered ==
    \E r \in Reqs :
        /\ req[r].pc = "done" /\ req[r].body = "rate_limit"
        /\ call.op = "none" /\ last_key = NoKey /\ disabled_until = << >>

\* every configured key has a deadline later than t
AllCoolingDown(du, t) == \A k \in Range(keys) : k \in DOMAIN du /\ du[k] > t

(* C19: a request to an authenticated endpoint that passes the access check *)
(* and arrives while every key                                               *)
(* is cooling down is answered 503 without an upstream send; and when the    *)
(* disable_key of a non-streaming request's own attempt leaves every key     *)
(* cooling down, the request is answered 503 and nothing is sent again.      *)
AllDisabledAnswered503 ==
    [][ \A r \in Reqs :
          /\ (/\ req[r].pc = "new" /\ req'[r] # req[r]
              /\ ~(req'[r].pc = "send" /\ req'[r].api_key = NoKey)
              /\ req'[r].status # StatusUnauthorized
              /\ AllCoolingDown(disabled_until, now))
                => /\ req'[r].pc = "done" /\ req'[r].status = StatusAllDisabled
                   /\ req'[r].sends = 0
          /\ (/\ req[r].pc \in {"send", "caught"} /\ ~req[r].is_stream
              /\ disabled_until' # disabled_until
              /\ AllCoolingDown(disabled_until', now))
                => req'[r].pc = "reselect"
          /\ (/\ req[r].pc = "reselect" /\ req'[r] # req[r]
              /\ AllCoolingDown(disabled_until, now))
                => req'[r].pc = "done" /\ req'[r].status = StatusAllDisabled
      ]_vars

(* C20: on a JSON body whose error.metadata.headers holds an               *)
(* X-RateLimit-Reset that parses as an integer, check_rate_limit_error       *)
(* reports a rate limit with that integer as the reset time, whatever the    *)
(* error message is.                                                         *)
MetadataResetDetected ==
    (/\ det.op = "body"
     /\ det.response.json_type
     /\ det.response.body.shape = "object" /\ det.response.body.error = "object"
     /\ det.response.body.meta = "headers"
     /\ det.response.body.reset.present
     /\ ParseInt(det.response.body.reset.text).ok)
        => /\ det.out.detected
           /\ det.out.reset = ResetAt(ParseInt(det.response.body.reset.text).value)

\* the body is a JSON object whose "error" member is an object
IsErrorObject(body) == body.shape = "object" /\ body.error = "object"

\* error.metadata.headers holds an X-RateLimit-Reset that int() accepts
HasMetadataReset(body) ==
    /\ body.meta = "headers" /\ body.reset.present
    /\ ParseInt(body.reset.text).ok

(* C21: on a JSON error body with error.code 429 and no usable reset time,   *)
(* neither in the metadata nor in the response's header,                     *)
(* check_rate_limit_error reports a rate limit without a reset time,         *)
(* whatever the error message is.                                            *)
CodeDetectedWithoutReset ==
    (/\ det.op = "body"
     /\ det.response.json_type
     /\ det.response.reset_header = NoField
     /\ IsErrorObject(det.response.body)
     /\ det.response.body.code = RateLimitErrorCode
     /\ ~HasMetadataReset(det.response.body))
        => det.out = Signal(TRUE, NoReset)

(* C22: neither detector raises, and on an input that is not an error        *)
(* object (text that is not JSON, a number, a list, an object without        *)
(* "error", a null "error") each reports no rate limit and no reset time.    *)
DetectorsFailOpen ==
    det.op \in {"body", "sse"}
        => /\ ~det.out.raised
           /\ (~IsErrorObject(det.response.body) /\ det.response.reset_header = NoField)
                 => det.out = Signal(FALSE, NoReset)

(* C23: on an error body whose error.code is not 429 neither detector        *)
(* reports a rate limit.                                                     *)
OtherCodeNotDetected ==
    (/\ det.op \in {"body", "sse"}
     /\ IsErrorObject(det.response.body)
     /\ det.response.body.code # RateLimitErrorCode)
        => ~det.out.detected

(* C24: for every JSON payload p, parse_rate_limit_from_sse on the line      *)
(* "data: p" returns what check_rate_limit_error returns on a JSON response  *)
(* with the body p and no reset header.                                      *)
SseAgreesWithBody ==
    (/\ det.op = "sse" /\ det.prefixed
     /\ det.response.body.shape # "text"
     /\ det.response.json_type /\ det.response.reset_header = NoField)
        => det.out = check_rate_limit_error(det.response)

(* C25: when the upstream answers a streaming request that used a key with  *)
(* an error response whose body is plain JSON, without "data: ", the         *)
(* detector runs on that body, and a rate-limit body disables the key.       *)
BufferedErrorOfStreamDetected ==
    (/\ strm.pc = "done" /\ strm.endpoint = "httpx" /\ strm.api_key # NoKey
     /\ ~strm.failed
     /\ Len(strm.received) = 1
     /\ ~strm.received[1].prefixed /\ strm.received[1].kind = "rate_limit")
        => /\ strm.checked = <<strm.received[1]>>
           /\ strm.api_key \in DOMAIN disabled_until

IsListing(body) ==
    /\ body.shape = "object" /\ body.data = "list"
    /\ \A i \in 1..Len(body.models) :
          body.models[i].shape = "object" /\ body.models[i].pricing # "null"

\* the entries whose six prices are all "0", in their order
FreeModels(body) ==
    SelectSeq(body.models,
              LAMBDA e : e.pricing = "object" /\ \A k \in Prices : e.prices[k] = "0")

(* C27: the filter keeps exactly the entries whose six prices are all "0",   *)
(* in their order; when no entry qualifies, or the body is not a listing     *)
(* that can be parsed, it returns the body as it was, and it never returns   *)
(* an empty list it made itself.                                             *)
FreeOnlyFilter ==
    mdl.op = "filtered"
        => /\ ~mdl.out.raised
           /\ IF IsListing(mdl.body) /\ FreeModels(mdl.body) # << >>
                  THEN mdl.out.body.models = FreeModels(mdl.body)
                  ELSE mdl.out.body = mdl.body

\* the position of the key in the sequence, counted from 1
PositionOf(k) == CHOOSE i \in 1..Len(keys) : keys[i] = k

\* how many keys the walk from the cursor examines until it reaches the key
Examined(idx, k) == ((PositionOf(k) - 1 - idx + Len(keys)) % Len(keys)) + 1

\* a round-robin selection: the cursor moves one position for every key
\* examined, the keys passed over are the unavailable ones, and the cursor
\* ends one past the key returned
CursorStep ==
    (/\ WatchedNextCall /\ call'.status = StatusOk
     /\ ~(use_last_key /\ last_key \in AvailableNow))
        => /\ current_index' = (current_index + Examined(current_index, call'.key)) % Len(keys)
           /\ current_index' = PositionOf(call'.key) % Len(keys)
           /\ \A d \in 0..(Examined(current_index, call'.key) - 2) :
                 keys[((current_index + d) % Len(keys)) + 1] \notin AvailableNow

(* C28, as stated: in a round-robin selection the cursor advances by one for *)
(* every key examined and ends one past the key returned; and with sticky    *)
(* off, between two consecutive selections of the same key every other key   *)
(* that stayed available throughout is selected exactly once.                 *)
EveryOtherKeyOnce ==
    [][ /\ CursorStep
        /\ (/\ WatchedNextCall /\ ~use_last_key
            /\ history.seen /\ call'.key = history.watched)
              => \A j \in Range(keys) \ {history.watched} :
                     history.steady[j] => history.count[j] = 1
      ]_vars

(* C28, amended: the same, for two consecutive selections of a key that      *)
(* itself stayed available in between.                                       *)
EveryOtherKeyOnceWhileAvailable ==
    [][ /\ CursorStep
        /\ (/\ WatchedNextCall /\ ~use_last_key
            /\ history.seen /\ call'.key = history.watched
            /\ history.steady[history.watched])
              => \A j \in Range(keys) \ {history.watched} :
                     history.steady[j] => history.count[j] = 1
      ]_vars

\* the watched key has come round again, having stayed available, while
\* another key stayed available and a third did not, with sticky off
WatchedKeyCameRound == history.closed /\ ~use_last_key

(* C29: a request rejected by verify_access_key with 401 leaves the pool as  *)
(* it was: the cursor, last_key, the deadlines, and no KeyManager call and   *)
(* no upstream send is made for it.                                          *)
RejectedRequestLeavesPool ==
    [][ \A r \in Reqs :
          (req[r].pc = "new" /\ req'[r].status = StatusUnauthorized)
              => /\ UNCHANGED <<poolVars, obsVars>>
                 /\ req'[r].pc = "done" /\ req'[r].sends = 0
      ]_vars

\* a request was answered 401 while a key was available and no KeyManager
\* call has been made
RejectedWhileKeyAvailable ==
    \E r \in Reqs :
        /\ req[r].pc = "done" /\ req[r].status = StatusUnauthorized
        /\ call.op = "none" /\ AvailableNow # {}

(* C30: a get_next_key call that fails because every key is disabled leaves *)
(* the cursor, last_key and every deadline as they were; the cursor is       *)
(* always an index of the key sequence, from 0 to N - 1; and no step changes *)
(* the key sequence.                                                         *)
FailedCallLeavesPool ==
    /\ current_index \in 0..(Len(keys) - 1)
    /\ [][ /\ (NextCall /\ call'.status = StatusAllDisabled)
                => UNCHANGED <<current_index, last_key, disabled_until>>
           /\ current_index' \in 0..(Len(keys) - 1)
           /\ keys' = keys
         ]_vars

\* a call has failed with the cursor moved on from 0, a key selected before
\* and every key disabled
FailedCallSeen ==
    /\ call.op = "next" /\ call.status = StatusAllDisabled
    /\ current_index > 0 /\ last_key # NoKey
    /\ DOMAIN disabled_until = Range(keys)

====
